---- MODULE Spec2Model ----
(***************************************************************************)
(* Model of skills/skill-crafting/scripts/frontmatter.py: the frontmatter  *)
(* splitter parse_frontmatter, the line-oriented header parser             *)
(* parse_simple_yaml, and parse_list_item.                                 *)
(*                                                                         *)
(* A text is a sequence of one-character strings.  A Python dict is a      *)
(* function whose domain is its key set; the values that the parser stores *)
(* are tagged: Scalar (str), Mapping (dict), Sequence (list), and, inside  *)
(* a list, Scalar or Record.  The cursor i is 0-based as in the source.    *)
(***************************************************************************)
EXTENDS Integers, Sequences, FiniteSets, TLC

\* ------------------------------------------------------------------------
\* Bounds of the input space
\* ------------------------------------------------------------------------
MaxLines == 3
MaxTok == 5

\* ------------------------------------------------------------------------
\* Characters
\* ------------------------------------------------------------------------
Letter ==
  {"a","b","c","d","e","f","g","h","i","j","k","l","m","n","o","p","q","r",
   "s","t","u","v","w","x","y","z","A","B","C","D","E","F","G","H","I","J",
   "K","L","M","N","O","P","Q","R","S","T","U","V","W","X","Y","Z"}

Digit == {"0","1","2","3","4","5","6","7","8","9"}

IdentChar == Letter \cup Digit \cup {"_", "-"}

Whitespace == {" ", "\t", "\n", "\r"}

DELIM == <<"-", "-", "-">>

None == <<>>

\* ------------------------------------------------------------------------
\* Python str primitives
\* ------------------------------------------------------------------------
Min(S) == CHOOSE x \in S : \A y \in S : x <= y

Max(S) == CHOOSE x \in S : \A y \in S : x >= y

NonWs(s) == {k \in 1..Len(s) : s[k] \notin Whitespace}

lstrip(s) == IF NonWs(s) = {} THEN <<>> ELSE SubSeq(s, Min(NonWs(s)), Len(s))

rstrip(s) == IF NonWs(s) = {} THEN <<>> ELSE SubSeq(s, 1, Max(NonWs(s)))

strip(s) == rstrip(lstrip(s))

startswith(s, p) == Len(s) >= Len(p) /\ SubSeq(s, 1, Len(p)) = p

endswith(s, p) == Len(s) >= Len(p) /\ SubSeq(s, Len(s) - Len(p) + 1, Len(s)) = p

\* 0-based offsets k >= start at which p occurs in s
Occurrences(s, p, start) ==
  {k \in start..(Len(s) - Len(p)) : SubSeq(s, k + 1, k + Len(p)) = p}

\* str.index(p, start); -1 stands for the ValueError
index(s, p, start) ==
  IF Occurrences(s, p, start) = {} THEN -1 ELSE Min(Occurrences(s, p, start))

\* s[from:] with a 0-based offset
SliceFrom(s, from) == SubSeq(s, from + 1, Len(s))

\* s[from:to] with 0-based offsets
Slice(s, from, to) == SubSeq(s, from + 1, to)

RECURSIVE split_nl(_)
split_nl(s) ==
  LET nl == {k \in 1..Len(s) : s[k] = "\n"} IN
  IF nl = {} THEN <<s>>
  ELSE <<SubSeq(s, 1, Min(nl) - 1)>> \o split_nl(SubSeq(s, Min(nl) + 1, Len(s)))

\* str.split(): the maximal runs of non-whitespace characters
RECURSIVE split_ws(_)
split_ws(s) ==
  LET t == lstrip(s)
      ws == {k \in 1..Len(t) : t[k] \in Whitespace}
  IN IF t = <<>> THEN <<>>
     ELSE IF ws = {} THEN <<t>>
     ELSE <<SubSeq(t, 1, Min(ws) - 1)>> \o split_ws(SubSeq(t, Min(ws), Len(t)))

RECURSIVE join_nl(_)
join_nl(ls) ==
  IF ls = <<>> THEN <<>>
  ELSE IF Len(ls) = 1 THEN ls[1]
  ELSE ls[1] \o <<"\n">> \o join_nl(Tail(ls))

\* len(line) - len(line.lstrip())
Indent(line) == Len(line) - Len(lstrip(line))

\* ------------------------------------------------------------------------
\* Values
\* ------------------------------------------------------------------------
Scalar(s) == [tag |-> "Scalar", val |-> s]

Mapping(m) == [tag |-> "Mapping", val |-> m]

Sequence(l) == [tag |-> "Sequence", val |-> l]

Record(m) == [tag |-> "Record", val |-> m]

EmptyDict == <<>>

\* d[k] = v
Put(d, k, v) == [x \in (DOMAIN d) \cup {k} |-> IF x = k THEN v ELSE d[x]]

\* ------------------------------------------------------------------------
\* Line classification
\* ------------------------------------------------------------------------
NoMatch == [ok |-> FALSE, key |-> <<>>, value |-> <<>>]

\* a slip: the first character of a key may be a digit too
IdentLen_digitstart(s) ==
  IF s = <<>> \/ s[1] \notin (Letter \cup Digit) THEN 0
  ELSE Max({k \in 1..Len(s) : \A j \in 2..k : s[j] \in IdentChar})

\* length of the longest prefix of s matching [a-zA-Z][a-zA-Z0-9_-]*
IdentLen(s) ==
  IF s = <<>> \/ s[1] \notin Letter THEN 0
  ELSE Max({k \in 1..Len(s) : \A j \in 2..k : s[j] \in IdentChar})

\* a slip: the ':' is optional in the pattern
key_value_match_optcolon(s) ==
  LET n == IdentLen(s)
      rest == lstrip(SliceFrom(s, n))
  IN IF n = 0 THEN NoMatch
     ELSE [ok |-> TRUE, key |-> SubSeq(s, 1, n),
           value |-> strip(IF rest # <<>> /\ rest[1] = ":" THEN Tail(rest) ELSE rest)]

\* re.match(r'^([a-zA-Z][a-zA-Z0-9_-]*)\s*:\s*(.*)$', s), with group(2).strip()
key_value_match(s) ==
  LET n == IdentLen(s)
      rest == lstrip(SliceFrom(s, n))
  IN IF n = 0 \/ rest = <<>> \/ rest[1] # ":" THEN NoMatch
     ELSE [ok |-> TRUE, key |-> SubSeq(s, 1, n), value |-> strip(Tail(rest))]

\* re.match(r'^\s+([a-zA-Z][a-zA-Z0-9_-]*)\s*:\s*(.*)$', line), group(2).strip()
nested_match(line) ==
  IF Indent(line) = 0 THEN NoMatch ELSE key_value_match(lstrip(line))

\* a slip: strips whenever the value starts and ends with any quote character
Unquote_anyquote(value) ==
  IF value # <<>> /\ value[1] \in {"\"", "'"} /\ value[Len(value)] \in {"\"", "'"}
    THEN SubSeq(value, 2, Len(value) - 1)
    ELSE value

\* the two quote-stripping branches
Unquote(value) ==
  IF startswith(value, <<"\"">>) /\ endswith(value, <<"\"">>)
    THEN SubSeq(value, 2, Len(value) - 1)
  ELSE IF startswith(value, <<"'">>) /\ endswith(value, <<"'">>)
    THEN SubSeq(value, 2, Len(value) - 1)
  ELSE value

\* ------------------------------------------------------------------------
\* parse_list_item
\* ------------------------------------------------------------------------
HasColon(s) == \E k \in 1..Len(s) : s[k] = ":"

\* part.partition(':')
Partition(part) ==
  LET c == Min({k \in 1..Len(part) : part[k] = ":"})
  IN [key |-> SubSeq(part, 1, c - 1), val |-> SubSeq(part, c + 1, Len(part))]

RECURSIVE item_fields(_, _)
item_fields(parts, acc) ==
  IF parts = <<>> THEN acc
  ELSE LET part == Head(parts) IN
       IF HasColon(part) /\ Partition(part).val # <<>>
         THEN item_fields(Tail(parts),
                          Put(acc, strip(Partition(part).key), strip(Partition(part).val)))
         ELSE item_fields(Tail(parts), acc)

parse_list_item(text) ==
  LET item_text == strip(text)
      fields == item_fields(split_ws(item_text), EmptyDict)
  IN IF HasColon(item_text) /\ DOMAIN fields # {}
       THEN Record(fields)
       ELSE Scalar(item_text)

\* the inner while loop over '-' lines: returns the cursor and the items
RECURSIVE list_scan(_, _, _)
list_scan(ls, j, items) ==
  IF j < Len(ls) /\ startswith(strip(ls[j + 1]), <<"-">>)
    THEN LET st == strip(ls[j + 1])
             \* re.match(r'^\s*-\s*(.+)$', st)
             text == lstrip(Tail(st))
         IN list_scan(ls, j + 1,
                      IF text # <<>> THEN Append(items, parse_list_item(text))
                      ELSE items)
    ELSE [i |-> j, items |-> items]

\* ------------------------------------------------------------------------
\* parse_simple_yaml, one loop iteration at a time.  A frame holds the
\* function's local variables.
\* ------------------------------------------------------------------------
InitFrame(yaml_text) ==
  [pc |-> "scan", lines |-> split_nl(yaml_text), i |-> 0, result |-> EmptyDict,
   current_key |-> None, multiline_value |-> <<>>, multiline_indent |-> 0,
   key |-> None, nested |-> EmptyDict]

InMultiline(f) == f.current_key # None /\ f.multiline_value # <<>>

\* '\n'.join(multiline_value).strip() stored under current_key
flush_multiline(f) ==
  [f EXCEPT !.result = Put(@, f.current_key, Scalar(strip(join_nl(f.multiline_value)))),
            !.current_key = None,
            !.multiline_value = <<>>]

\* a slip: a key with empty value is bound to the empty string
match_line_emptystring(f, line, stripped) ==
  LET m == key_value_match(stripped)
      value == Unquote(m.value)
  IN IF ~m.ok THEN [f EXCEPT !.i = @ + 1]
     ELSE IF m.value \in {<<"|">>, <<">">>}
       THEN [f EXCEPT !.current_key = m.key,
                      !.multiline_value = <<>>,
                      !.multiline_indent = Indent(line) + 2,
                      !.i = @ + 1]
     ELSE [f EXCEPT !.result = Put(@, m.key, Scalar(value)), !.i = @ + 1]

\* the key: value part of one iteration of the top-level loop
match_line(f, line, stripped) ==
  LET m == key_value_match(stripped)
      value == Unquote(m.value)
  IN IF ~m.ok THEN [f EXCEPT !.i = @ + 1]
     ELSE IF m.value \in {<<"|">>, <<">">>}
       THEN [f EXCEPT !.current_key = m.key,
                      !.multiline_value = <<>>,
                      !.multiline_indent = Indent(line) + 2,
                      !.i = @ + 1]
     ELSE IF value = <<>>
       THEN [f EXCEPT !.key = m.key, !.nested = EmptyDict, !.i = @ + 1,
                      !.pc = "nested"]
     ELSE [f EXCEPT !.result = Put(@, m.key, Scalar(value)), !.i = @ + 1]

\* one iteration of 'while i < len(lines)' (top level), up to the point
\* where it enters the nested-block loop
scan_iteration(f) ==
  LET line == f.lines[f.i + 1]
      stripped == strip(line)
  IN IF stripped = <<>> \/ stripped[1] = "#"
       THEN [f EXCEPT !.multiline_value = IF InMultiline(f) THEN Append(@, <<>>) ELSE @,
                      !.i = @ + 1]
     ELSE IF InMultiline(f) /\ Indent(line) >= f.multiline_indent
       THEN [f EXCEPT !.multiline_value = Append(@, SliceFrom(line, f.multiline_indent)),
                      !.i = @ + 1]
     ELSE match_line(IF InMultiline(f) THEN flush_multiline(f) ELSE f, line, stripped)

\* a slip: the line that ends the block is consumed by the block
nested_exit_consume(f) ==
  [f EXCEPT !.result = Put(@, f.key, Mapping(f.nested)), !.pc = "scan",
            !.i = IF @ < Len(f.lines) THEN @ + 1 ELSE @]

\* leaving the nested-block loop: result[key] = nested; continue
nested_exit(f) ==
  [f EXCEPT !.result = Put(@, f.key, Mapping(f.nested)), !.pc = "scan"]

\* one iteration of the nested-block loop 'while i < len(lines)'
nested_iteration(f) ==
  IF f.i >= Len(f.lines) THEN nested_exit(f)
  ELSE
    LET nested_line == f.lines[f.i + 1]
        m == nested_match(nested_line)
        ls == list_scan(f.lines, f.i, <<>>)
    IN IF strip(nested_line) = <<>> THEN [f EXCEPT !.i = @ + 1]
       ELSE IF startswith(nested_line, <<" ", " ">>) \/ startswith(nested_line, <<"\t">>)
         THEN IF ~m.ok THEN [f EXCEPT !.i = @ + 1]
              ELSE IF startswith(m.value, <<"-">>)
                THEN [f EXCEPT !.nested = Put(@, m.key, Sequence(ls.items)),
                               !.i = ls.i]
              ELSE [f EXCEPT !.nested = Put(@, m.key, Scalar(Unquote(m.value))),
                             !.i = @ + 1]
       ELSE nested_exit(f)

\* after the top-level loop: remaining multiline content, return result
finish(f) ==
  [(IF InMultiline(f) THEN flush_multiline(f) ELSE f) EXCEPT !.pc = "done"]

step(f) ==
  IF f.pc = "nested" THEN nested_iteration(f)
  ELSE IF f.i < Len(f.lines) THEN scan_iteration(f)
  ELSE finish(f)

parse_simple_yaml_run(f, fuel) ==
  LET RECURSIVE go(_, _)
      go(g, n) == IF g.pc = "done" \/ n = 0 THEN g ELSE go(step(g), n - 1)
  IN go(f, fuel)

\* parse_simple_yaml as a function of its argument: the frame at the return,
\* or a frame with pc # "done" when the loops do not end
parse_simple_yaml(yaml_text) ==
  parse_simple_yaml_run(InitFrame(yaml_text), 2 * Len(split_nl(yaml_text)) + 2)

\* ------------------------------------------------------------------------
\* parse_frontmatter
\* ------------------------------------------------------------------------
\* a slip: content.index('---', 0)
end_idx_of_from0(content) == index(content, DELIM, 0)

\* a slip: content.rindex('---', 3)
end_idx_of_last(content) ==
  IF Occurrences(content, DELIM, 3) = {} THEN -1 ELSE Max(Occurrences(content, DELIM, 3))

\* content.index('---', 3)
end_idx_of(content) == index(content, DELIM, 3)

\* a slip: the no-header test looks at the first two characters only
has_opening_two(content) == startswith(content, <<"-", "-">>)

\* content.startswith('---')
has_opening(content) == startswith(content, DELIM)

\* content[3:end_idx].strip()
yaml_section_of(content, end_idx) == strip(Slice(content, 3, end_idx))

\* a slip: content.strip()
body_of_whole(content, end_idx) == strip(content)

\* a slip: content[end_idx + 3:].lstrip()
body_of_lstrip(content, end_idx) == lstrip(SliceFrom(content, end_idx + 3))

\* content[end_idx + 3:].strip()
body_of(content, end_idx) == strip(SliceFrom(content, end_idx + 3))

\* parse_frontmatter as a function of its argument; done is FALSE when
\* parse_simple_yaml does not return
parse_frontmatter(content) ==
  IF ~has_opening(content) \/ end_idx_of(content) = -1
    THEN [done |-> TRUE, frontmatter |-> EmptyDict, body |-> content]
    ELSE LET f == parse_simple_yaml(yaml_section_of(content, end_idx_of(content)))
         IN [done |-> f.pc = "done", frontmatter |-> f.result,
             body |-> body_of(content, end_idx_of(content))]

\* ------------------------------------------------------------------------
\* get_frontmatter_field
\* ------------------------------------------------------------------------
\* the results of a call that binds no value
NoneValue == [tag |-> "None", val |-> <<>>]

KeyError == [tag |-> "KeyError", val |-> <<>>]

\* a slip: frontmatter[field]
dict_get_subscript(d, k) == IF k \in DOMAIN d THEN d[k] ELSE KeyError

\* dict.get(k)
dict_get(d, k) == IF k \in DOMAIN d THEN d[k] ELSE NoneValue

\* the value returned, when parse_frontmatter returns
get_frontmatter_field(content, field) ==
  dict_get(parse_frontmatter(content).frontmatter, field)

\* ------------------------------------------------------------------------
\* analyze-tokens.py: its own parse_frontmatter.  parse_simple_yaml is called
\* inside the try block; it has no statement that raises ValueError.
\* ------------------------------------------------------------------------
\* a slip: the body is content[end:].strip()
analyze_tokens_parse_frontmatter_fromdelim(content) ==
  IF ~startswith(content, <<"-", "-", "-">>)
    THEN [done |-> TRUE, frontmatter |-> EmptyDict, body |-> content]
  ELSE IF index(content, <<"-", "-", "-">>, 3) = -1
    THEN [done |-> TRUE, frontmatter |-> EmptyDict, body |-> content]
  ELSE LET end == index(content, <<"-", "-", "-">>, 3)
           yaml_content == strip(Slice(content, 3, end))
           body == strip(SliceFrom(content, end))
           f == parse_simple_yaml(yaml_content)
       IN [done |-> f.pc = "done", frontmatter |-> f.result, body |-> body]

\* parse_frontmatter of analyze-tokens.py as a function of its argument;
\* done is FALSE when parse_simple_yaml does not return
analyze_tokens_parse_frontmatter(content) ==
  IF ~startswith(content, <<"-", "-", "-">>)
    THEN [done |-> TRUE, frontmatter |-> EmptyDict, body |-> content]
  ELSE IF index(content, <<"-", "-", "-">>, 3) = -1
    THEN [done |-> TRUE, frontmatter |-> EmptyDict, body |-> content]
  ELSE LET end == index(content, <<"-", "-", "-">>, 3)
           yaml_content == strip(Slice(content, 3, end))
           body == strip(SliceFrom(content, end + 3))
           f == parse_simple_yaml(yaml_content)
       IN [done |-> f.pc = "done", frontmatter |-> f.result, body |-> body]

\* ------------------------------------------------------------------------
\* Input documents
\* ------------------------------------------------------------------------
RECURSIVE Concat(_)
Concat(ss) == IF ss = <<>> THEN <<>> ELSE Head(ss) \o Concat(Tail(ss))

SeqsUpTo(S, n) == UNION {[1..k -> S] : k \in 0..n}

\* documents made of a few tokens, with and without delimiters
SplitTokens == {DELIM, <<"-">>, <<"\n">>, <<" ">>, <<"a", ":">>, <<"x">>}

TokDocs == {Concat(ts) : ts \in SeqsUpTo(SplitTokens, MaxTok)}

\* header lines
L_plain == <<"a", ":", " ", "1">>

L_block == <<"k", ":", " ", "|">>

L_text == <<" ", " ", "x", " ", "y">>

L_child == <<" ", " ", "b", ":", " ", "2">>

L_empty == <<"a", ":">>

L_deep == <<" ", " ", " ", " ", "c", ":", " ", "1">>

L_childempty == <<" ", " ", "b", ":">>

L_item == <<" ", " ", " ", " ", "-", " ", "c", ":", " ", "\"", "x", "\"">>

L_dash == <<" ", " ", "b", ":", " ", "-", "x">>

L_quoted == <<"t", ":", " ", "\"", "a", ":", " ", "b", "\"">>

L_blank == <<>>

L_comment == <<"#", " ", "c">>

L_malformed == <<"x", " ", "y">>

L_dashitem == <<" ", " ", "-", " ", "y">>

L_other == <<"d", ":", " ", "4">>

HeaderLines ==
  {L_plain,
   L_block,
   L_text,
   L_child,
   L_empty,
   L_dash,
   L_quoted,
   L_blank,
   L_comment,
   L_malformed,
   L_dashitem,
   L_other}

A_body == <<"\n", "b", "o", "d", "y">>

HeaderDocs ==
  {DELIM \o <<"\n">> \o join_nl(ls) \o <<"\n">> \o DELIM \o A_body :
     ls \in SeqsUpTo(HeaderLines, MaxLines) \ {<<>>}}

\* headers with keys nested under a child key
NestLines == {L_empty, L_child, L_childempty, L_deep, L_item}

NestDocs ==
  {DELIM \o <<"\n">> \o join_nl(ls) \o <<"\n">> \o DELIM \o A_body :
     ls \in SeqsUpTo(NestLines, MaxLines) \ {<<>>}}

\* documents with a delimiter inside a header line, and bodies with blank
\* lines, indentation and trailing spaces
H_embedded == <<"\n", "t", ":", " ", "a", " ", "-", "-", "-", " ", "b", "\n">>

SplitHeaders == {<<>>, <<"\n">>, <<"\n", "a", ":", " ", "1", "\n">>, H_embedded}

SplitBodies ==
  {<<>>, <<"\n", "x">>, <<"\n", "\n", " ", " ", "x", " ", "y", " ", " ", "\n", "\n">>, <<"\n", " ", "x", "\n", "y", " ", "\n">>, <<" ", "\n", "\t", "\n">>, <<"\n", "\n", "\t", "x", "\n", "\n", " ", "\n", "y", "\n", " ", "\n">>}

BodyDocs == {DELIM \o h \o DELIM \o b : h \in SplitHeaders, b \in SplitBodies}

\* the names and texts of the examples
NAME_name == <<"n", "a", "m", "e">>

NAME_description == <<"d", "e", "s", "c", "r", "i", "p", "t", "i", "o", "n">>

TEXT_two_lines == <<"l", "i", "n", "e", " ", "o", "n", "e", "\n", "l", "i", "n", "e", " ", "t", "w", "o">>

TEXT_body_text == <<"b", "o", "d", "y", " ", "t", "e", "x", "t">>

NAME_hooks == <<"h", "o", "o", "k", "s">>

NAME_PreToolUse == <<"P", "r", "e", "T", "o", "o", "l", "U", "s", "e">>

NAME_command == <<"c", "o", "m", "m", "a", "n", "d">>

TEXT_a_delim_b == <<"a", " ", "-", "-", "-", " ", "b">>

TEXT_a_colon_b == <<"a", ":", " ", "b">>

\* the documents of the specification's examples and of the self-test
Ex_block == <<"-", "-", "-", "\n", "n", "a", "m", "e", ":", " ", "x", "\n", "d", "e", "s", "c", "r", "i", "p", "t", "i", "o", "n", ":", " ", "|", "\n", " ", " ", "l", "i", "n", "e", " ", "o", "n", "e", "\n", " ", " ", "l", "i", "n", "e", " ", "t", "w", "o", "\n", "-", "-", "-", "\n", "b", "o", "d", "y", " ", "t", "e", "x", "t">>

Ex_hooks == <<"-", "-", "-", "\n", "h", "o", "o", "k", "s", ":", "\n", " ", " ", "P", "r", "e", "T", "o", "o", "l", "U", "s", "e", ":", "\n", " ", " ", " ", " ", "-", " ", "c", "o", "m", "m", "a", "n", "d", ":", " ", "\"", "x", "\"", "\n", "-", "-", "-", "\n">>

Ex_selftest == <<"-", "-", "-", "\n", "n", "a", "m", "e", ":", " ", "t", "e", "s", "t", "-", "s", "k", "i", "l", "l", "\n", "h", "o", "o", "k", "s", ":", "\n", " ", " ", "U", "s", "e", "r", "P", "r", "o", "m", "p", "t", "S", "u", "b", "m", "i", "t", ":", "\n", " ", " ", " ", " ", "-", " ", "c", "o", "m", "m", "a", "n", "d", ":", " ", "\"", "p", "y", "t", "h", "o", "n", "3", " ", "t", "e", "s", "t", ".", "p", "y", "\"", "\n", " ", " ", " ", " ", " ", " ", "t", "i", "m", "e", "o", "u", "t", ":", " ", "5", "0", "0", "\n", "-", "-", "-", "\n", "\n", "#", " ", "T", "e", "s", "t", " ", "S", "k", "i", "l", "l", "\n">>

Examples == {Ex_block, Ex_hooks, Ex_selftest}

\* quoted values: every pairing of opening and closing quote characters
Quotes == {"\"", "'"}

QuoteKeys == {<<"t">>, <<"k", "-", "2">>}

QuoteTexts == {<<"a", ":", " ", "b">>, <<"x">>, <<"i", "t", "'", "s">>, <<" ", "x", " ">>}

QuotedLine(K, q1, text, q2) == K \o <<":", " ">> \o <<q1>> \o text \o <<q2>>

QuoteDocs ==
  {DELIM \o <<"\n">> \o pre \o ind \o QuotedLine(K, q1, text, q2) \o <<"\n">> \o DELIM :
     pre \in {<<>>, L_plain \o <<"\n">>},
     ind \in {<<>>},
     K \in QuoteKeys, q1 \in Quotes, text \in QuoteTexts, q2 \in Quotes}
  \cup
  {DELIM \o <<"\n">> \o L_empty \o <<"\n">> \o <<" ", " ">> \o QuotedLine(K, q1, text, q2)
     \o <<"\n">> \o DELIM :
     K \in QuoteKeys, q1 \in Quotes, text \in QuoteTexts, q2 \in Quotes}

\* a key with empty value and a follower indented by spaces, tabs or both
Indents == {<<" ">>, <<"\t">>, <<" ", " ">>, <<" ", "\t">>, <<"\t", " ">>}

IndentDocs ==
  {DELIM \o <<"\n">> \o L_empty \o <<"\n">> \o ind \o <<"b", ":", " ", "2">>
     \o <<"\n">> \o DELIM :
     ind \in Indents}

\* key + ': ' + value between two delimiter lines
RoundTripKeys == {<<"k">>, <<"a", "-", "b">>, <<"A", "_", "1">>, <<"a", "-", "-", "-", "b">>}

RoundTripValues ==
  {<<"v">>, <<"a", " ", "b">>, <<"x", ":", "y">>, <<"-", "x">>, <<"#", "x">>, <<"1">>}

RoundTripDoc(K, V) == DELIM \o <<"\n">> \o K \o <<":", " ">> \o V \o <<"\n">> \o DELIM

RoundTripDocs == {RoundTripDoc(K, V) : K \in RoundTripKeys, V \in RoundTripValues}

\* the texts of list items: a few tokens and blanks, and the item of the
\* examples
MaxParts == 3

ItemTokens == {<<"a", ":", "1">>, <<"a", ":", "2">>, <<"b", ":">>, <<"x">>, <<":", "x">>, <<"a", ":", "b", ":", "c">>, <<" ">>}

TEXT_command_x == <<"c", "o", "m", "m", "a", "n", "d", ":", " ", "\"", "x", "\"">>

ItemTexts == {Concat(ts) : ts \in SeqsUpTo(ItemTokens, MaxParts)} \cup {TEXT_command_x}

\* the documents of repeated and interleaved calls
CallDocs ==
  {<<"a", ":", " ", "1">>,
   <<"-", "-", "-", "\n", "a", ":", " ", "1">>,
   <<"-", "-", "-", "\n", "k", ":", " ", "v", "\n", "-", "-", "-">>,
   <<"-", "-", "-", "\n", "a", ":", "\n", " ", " ", "b", ":", " ", "2", "\n", "-", "-", "-", "\n", "b", "o", "d", "y">>,
   <<"-", "-", "-", "\n", "d", ":", " ", "4", "\n", "t", ":", " ", "\"", "a", ":", " ", "b", "\"", "\n", "-", "-", "-", "\n", " ", "x", " ">>,
   <<"-", "-", "-", "\n", "a", ":", "\n", " ", " ", "b", ":", " ", "-", "x", "\n", "-", "-", "-">>}

\* key lines whose first character is a letter, a digit, an underscore or
\* another character, at top level and under a key with empty value
KeyLines ==
  {<<"a", ":">>,
   <<"k", "_", "1", "-", "x", ":", " ", "v">>,
   <<"_", "k", ":", " ", "1">>,
   <<"1", "a", ":", " ", "2">>,
   <<".", "k", ":", " ", "3">>,
   <<" ", " ", "b", "-", "2", "_", "y", ":", " ", "w">>,
   <<" ", " ", "_", "b", ":", " ", "2">>,
   <<" ", " ", "9", ":", " ", "1">>}

KeyDocs ==
  {DELIM \o <<"\n">> \o join_nl(ls) \o <<"\n">> \o DELIM :
     ls \in SeqsUpTo(KeyLines, MaxLines) \ {<<>>}}

\* a quoted value with empty inner text, alone and with a line after it
EmptyQuoteDocs ==
  {DELIM \o <<"\n">> \o QuotedLine(K, q, <<>>, q) \o after \o <<"\n">> \o DELIM :
     K \in QuoteKeys, q \in Quotes,
     after \in {<<>>, <<"\n">> \o L_child, <<"\n">> \o L_other}}

\* headers that write a key several times, at top level and under a key
DupLines ==
  {<<"a", ":", " ", "1">>,
   <<"a", ":", " ", "2">>,
   <<"a", ":", " ", "|">>,
   <<"a", ":">>,
   <<" ", " ", "b", ":", " ", "1">>,
   <<" ", " ", "b", ":", " ", "2">>,
   <<" ", " ", "t">>}

DupDocs ==
  {DELIM \o <<"\n">> \o join_nl(ls) \o <<"\n">> \o DELIM :
     ls \in SeqsUpTo(DupLines, MaxLines) \ {<<>>}}

Docs ==
  TokDocs \cup HeaderDocs \cup BodyDocs \cup Examples \cup QuoteDocs
    \cup IndentDocs \cup RoundTripDocs \cup KeyDocs \cup EmptyQuoteDocs
    \cup DupDocs \cup NestDocs

\* ------------------------------------------------------------------------
\* State
\* ------------------------------------------------------------------------
VARIABLES content, pc, lines, i, result, current_key, multiline_value,
          multiline_indent, key, nested, frontmatter, body, other,
          item_text, item

vars == <<content, pc, lines, i, result, current_key, multiline_value,
          multiline_indent, key, nested, frontmatter, body, other,
          item_text, item>>

\* a call of parse_frontmatter that has not started yet: its argument and
\* its own locals
FreshCall(doc) ==
  [content |-> doc, pc |-> "start", lines |-> <<>>, i |-> 0, result |-> EmptyDict,
   current_key |-> None, multiline_value |-> <<>>, multiline_indent |-> 0,
   key |-> None, nested |-> EmptyDict, frontmatter |-> EmptyDict, body |-> <<>>]

\* no second call
NoCall == [FreshCall(<<>>) EXCEPT !.pc = "none"]

\* the running call
ThisCall ==
  [content |-> content, pc |-> pc, lines |-> lines, i |-> i, result |-> result,
   current_key |-> current_key, multiline_value |-> multiline_value,
   multiline_indent |-> multiline_indent, key |-> key, nested |-> nested,
   frontmatter |-> frontmatter, body |-> body]

\* the local variables of parse_simple_yaml
Frame ==
  [pc |-> pc, lines |-> lines, i |-> i, result |-> result,
   current_key |-> current_key, multiline_value |-> multiline_value,
   multiline_indent |-> multiline_indent, key |-> key, nested |-> nested]

SetFrame(f) ==
  /\ pc' = f.pc
  /\ lines' = f.lines
  /\ i' = f.i
  /\ result' = f.result
  /\ current_key' = f.current_key
  /\ multiline_value' = f.multiline_value
  /\ multiline_indent' = f.multiline_indent
  /\ key' = f.key
  /\ nested' = f.nested

Init ==
  /\ content \in Docs
  /\ pc = "start"
  /\ lines = <<>>
  /\ i = 0
  /\ result = EmptyDict
  /\ current_key = None
  /\ multiline_value = <<>>
  /\ multiline_indent = 0
  /\ key = None
  /\ nested = EmptyDict
  /\ frontmatter = EmptyDict
  /\ body = <<>>
  /\ other = NoCall
  /\ item_text = <<>>
  /\ item = NoneValue

\* two calls on documents of their own, the second one not started yet
InitCalls ==
  /\ content \in CallDocs
  /\ pc = "start"
  /\ lines = <<>>
  /\ i = 0
  /\ result = EmptyDict
  /\ current_key = None
  /\ multiline_value = <<>>
  /\ multiline_indent = 0
  /\ key = None
  /\ nested = EmptyDict
  /\ frontmatter = EmptyDict
  /\ body = <<>>
  /\ other \in {FreshCall(doc) : doc \in CallDocs}
  /\ item_text = <<>>
  /\ item = NoneValue

\* a slip: result is kept from the previous call instead of starting empty
ParseFrontmatter_keepsresult ==
  /\ pc = "start"
  /\ IF ~has_opening(content) \/ end_idx_of(content) = -1
       THEN /\ frontmatter' = EmptyDict
            /\ body' = content
            /\ pc' = "done"
            /\ UNCHANGED <<lines, i, result, current_key, multiline_value,
                           multiline_indent, key, nested>>
       ELSE /\ SetFrame([InitFrame(yaml_section_of(content, end_idx_of(content)))
                           EXCEPT !.result = result])
            /\ body' = body_of(content, end_idx_of(content))
            /\ UNCHANGED frontmatter
  /\ UNCHANGED <<content, other, item_text, item>>

\* parse_frontmatter up to the call of parse_simple_yaml
ParseFrontmatter ==
  /\ pc = "start"
  /\ IF ~has_opening(content) \/ end_idx_of(content) = -1
       THEN /\ frontmatter' = EmptyDict
            /\ body' = content
            /\ pc' = "done"
            /\ UNCHANGED <<lines, i, result, current_key, multiline_value,
                           multiline_indent, key, nested>>
       ELSE /\ SetFrame(InitFrame(yaml_section_of(content, end_idx_of(content))))
            /\ body' = body_of(content, end_idx_of(content))
            /\ UNCHANGED frontmatter
  /\ UNCHANGED <<content, other, item_text, item>>

\* one iteration of the top-level loop of parse_simple_yaml
ScanStep ==
  /\ pc = "scan"
  /\ i < Len(lines)
  /\ SetFrame(scan_iteration(Frame))
  /\ UNCHANGED <<content, frontmatter, body, other, item_text, item>>

\* one iteration of the nested-block loop of parse_simple_yaml
NestedStep ==
  /\ pc = "nested"
  /\ SetFrame(nested_iteration(Frame))
  /\ UNCHANGED <<content, frontmatter, body, other, item_text, item>>

\* the top-level loop has ended: parse_simple_yaml and parse_frontmatter return
Return ==
  /\ pc = "scan"
  /\ i >= Len(lines)
  /\ SetFrame(finish(Frame))
  /\ frontmatter' = finish(Frame).result
  /\ UNCHANGED <<content, body, other, item_text, item>>

Next == ParseFrontmatter \/ ScanStep \/ NestedStep \/ Return

Spec == Init /\ [][Next]_vars

\* the running call is suspended and the other call runs: each call has its
\* own argument and locals
Switch ==
  /\ other.pc # "none"
  /\ other' = ThisCall
  /\ content' = other.content
  /\ pc' = other.pc
  /\ lines' = other.lines
  /\ i' = other.i
  /\ result' = other.result
  /\ current_key' = other.current_key
  /\ multiline_value' = other.multiline_value
  /\ multiline_indent' = other.multiline_indent
  /\ key' = other.key
  /\ nested' = other.nested
  /\ frontmatter' = other.frontmatter
  /\ body' = other.body
  /\ UNCHANGED <<item_text, item>>

\* parse_frontmatter is called again, after a call has returned
Call ==
  /\ pc = "done"
  /\ content' \in CallDocs
  /\ pc' = "start"
  /\ UNCHANGED <<lines, i, result, current_key, multiline_value, multiline_indent,
                 key, nested, frontmatter, body, other, item_text, item>>

NextCalls == ParseFrontmatter \/ ScanStep \/ NestedStep \/ Return \/ Switch \/ Call

\* calls one after the other and calls interleaved
SpecCalls == InitCalls /\ [][NextCalls]_vars

\* parse_list_item on a text of its own
InitItems ==
  /\ content = <<>>
  /\ pc = "item"
  /\ lines = <<>>
  /\ i = 0
  /\ result = EmptyDict
  /\ current_key = None
  /\ multiline_value = <<>>
  /\ multiline_indent = 0
  /\ key = None
  /\ nested = EmptyDict
  /\ frontmatter = EmptyDict
  /\ body = <<>>
  /\ other = NoCall
  /\ item_text \in ItemTexts
  /\ item = NoneValue

ParseListItem ==
  /\ pc = "item"
  /\ item' = parse_list_item(item_text)
  /\ pc' = "itemdone"
  /\ UNCHANGED <<content, lines, i, result, current_key, multiline_value,
                 multiline_indent, key, nested, frontmatter, body, other, item_text>>

NextItems == ParseListItem

SpecItems == InitItems /\ [][NextItems]_vars
\* the interpreter runs the loops without pause
FairSpec == Spec /\ WF_vars(Next)

\* ------------------------------------------------------------------------
\* Vocabulary of the properties
\* ------------------------------------------------------------------------
DelimAt(c, k) ==
  k + 3 <= Len(c) /\ c[k + 1] = "-" /\ c[k + 2] = "-" /\ c[k + 3] = "-"

DelimStart(c) == DelimAt(c, 0)

\* 0-based offsets, from 3 on, where the delimiter literal occurs
LaterDelims(c) == {k \in 3..Len(c) : DelimAt(c, k)}

\* 0-based offsets, from 3 on, where the delimiter literal fills a whole line
OwnLineDelims(c) ==
  {k \in LaterDelims(c) : c[k] = "\n" /\ (k + 3 = Len(c) \/ c[k + 4] = "\n")}

Parsing == pc \in {"scan", "nested"}

\* the text with its leading and trailing blank lines removed
TrimBlankLines(t) ==
  LET ls == split_nl(t)
      nb == {k \in 1..Len(ls) : NonWs(ls[k]) # {}}
  IN IF nb = {} THEN <<>> ELSE join_nl(SubSeq(ls, Min(nb), Max(nb)))

\* the classification of a header line
KeyOf(line) == key_value_match(strip(line)).key

ValueOf(line) == key_value_match(strip(line)).value

IsKeyLine(line) == key_value_match(strip(line)).ok

IsBlockKeyLine(line) == IsKeyLine(line) /\ ValueOf(line) \in {<<"|">>, <<">">>}

IsEmptyKeyLine(line) == IsKeyLine(line) /\ ValueOf(line) = <<>>

IsPlainLine(line) ==
  /\ IsKeyLine(line)
  /\ ValueOf(line) # <<>>
  /\ ValueOf(line)[1] \notin {"|", ">", "\"", "'", "-"}

IsDashLine(line) == startswith(strip(line), <<"-">>) /\ Len(strip(line)) > 1

\* the continuation lines of the block scalar whose key is on line p
BlockEnd(ls, p) ==
  Max({q \in p..Len(ls) : \A j \in (p + 1)..q : Indent(ls[j]) >= Indent(ls[p]) + 2})

BlockText(ls, p) ==
  rstrip(join_nl([j \in 1..(BlockEnd(ls, p) - p) |->
                    SliceFrom(ls[p + j], Indent(ls[p]) + 2)]))

\* ------------------------------------------------------------------------
\* C1: every iteration of the top-level scan, and every iteration of the
\* nested-block scan that stays in the nested block, moves the line cursor
\* forward (so that both scans end).
\* ------------------------------------------------------------------------
C1_CursorAdvances ==
  [][((pc = "scan" /\ i < Len(lines)) \/ (pc = "nested" /\ pc' = "nested"))
       => i' > i]_vars

\* ------------------------------------------------------------------------
\* C2: a text whose first three characters are not '---' yields the empty
\* mapping and the whole text, untrimmed, as body.
\* ------------------------------------------------------------------------
C2_NoDelimiter ==
  (pc # "start" /\ ~DelimStart(content))
    => (pc = "done" /\ frontmatter = EmptyDict /\ body = content)

C2_Witness ==
  /\ pc = "done"
  /\ ~DelimStart(content)
  /\ Len(content) >= 4
  /\ content[1] \in Whitespace
  /\ content[Len(content)] \in Whitespace
  /\ LaterDelims(content) # {}
  /\ body = content

\* ------------------------------------------------------------------------
\* C3: a text that starts with '---' and has no '---' from offset 3 on
\* yields the empty mapping and the whole text as body.
\* ------------------------------------------------------------------------
C3_Unclosed ==
  (pc # "start" /\ DelimStart(content) /\ LaterDelims(content) = {})
    => (pc = "done" /\ frontmatter = EmptyDict /\ body = content)

C3_Witness ==
  /\ pc = "done"
  /\ DelimStart(content)
  /\ LaterDelims(content) = {}
  /\ \E k \in 4..Len(content) : content[k] = ":"
  /\ content[Len(content)] \in Whitespace
  /\ body = content

\* ------------------------------------------------------------------------
\* C4: a key with trailing value '|' or '>' followed by lines indented by
\* at least the key's indentation + 2 is bound to those lines, prefix
\* stripped, joined by newlines, trailing whitespace trimmed; the example
\* document gives name = x, description = 'line one\nline two', body =
\* 'body text'.
\* ------------------------------------------------------------------------
C4_BlockScalar ==
  pc = "done" =>
    /\ \A p \in 1..(Len(lines) - 1) :
         ( /\ IsBlockKeyLine(lines[p])
           /\ Indent(lines[p]) = 0
           /\ \A j \in 1..(p - 1) : Indent(lines[j]) = 0 /\ IsPlainLine(lines[j])
           /\ Indent(lines[p + 1]) >= 2
           /\ NonWs(lines[p + 1]) # {} )
         => /\ KeyOf(lines[p]) \in DOMAIN frontmatter
            /\ frontmatter[KeyOf(lines[p])] = Scalar(BlockText(lines, p))
    /\ content = Ex_block =>
         /\ DOMAIN frontmatter = {NAME_name, NAME_description}
         /\ frontmatter[NAME_name] = Scalar(<<"x">>)
         /\ frontmatter[NAME_description] = Scalar(TEXT_two_lines)
         /\ body = TEXT_body_text

\* ------------------------------------------------------------------------
\* C5: a top-level key with empty value, whose indented child key has an
\* empty value and is followed by deeper-indented '-' lines, is bound to a
\* Mapping whose child key is bound to the Sequence of those items; the
\* hooks example gives hooks = Mapping{PreToolUse: Sequence[Record{command:
\* x}]}.
\* ------------------------------------------------------------------------
C5_NestedSequence ==
  pc = "done" =>
    /\ ( /\ Len(lines) >= 3
         /\ IsEmptyKeyLine(lines[1]) /\ Indent(lines[1]) = 0
         /\ IsEmptyKeyLine(lines[2]) /\ Indent(lines[2]) > 0
         /\ \A j \in 3..Len(lines) :
              IsDashLine(lines[j]) /\ Indent(lines[j]) > Indent(lines[2]) )
       => /\ DOMAIN frontmatter = {KeyOf(lines[1])}
          /\ frontmatter[KeyOf(lines[1])].tag = "Mapping"
          /\ DOMAIN frontmatter[KeyOf(lines[1])].val = {KeyOf(lines[2])}
          /\ frontmatter[KeyOf(lines[1])].val[KeyOf(lines[2])].tag = "Sequence"
          /\ Len(frontmatter[KeyOf(lines[1])].val[KeyOf(lines[2])].val) = Len(lines) - 2
    /\ content = Ex_hooks =>
         frontmatter =
           (NAME_hooks :> Mapping(NAME_PreToolUse :>
              Sequence(<<Record(NAME_command :> <<"x">>)>>)))

\* ------------------------------------------------------------------------
\* C6: a chain of keys with empty values, each indented deeper than the
\* one before, yields mappings nested as deep as the chain: 'a:' / '  b:' /
\* '    c: 1' gives a -> Mapping{b -> Mapping{c -> '1'}}.
\* ------------------------------------------------------------------------
C6_DeepNesting ==
  ( /\ pc = "done"
    /\ Len(lines) = 3
    /\ IsEmptyKeyLine(lines[1]) /\ Indent(lines[1]) = 0
    /\ IsEmptyKeyLine(lines[2]) /\ Indent(lines[2]) > 0
    /\ IsPlainLine(lines[3]) /\ Indent(lines[3]) > Indent(lines[2]) )
  => frontmatter =
       (KeyOf(lines[1]) :> Mapping(KeyOf(lines[2]) :>
          Mapping(KeyOf(lines[3]) :> Scalar(ValueOf(lines[3])))))

\* ------------------------------------------------------------------------
\* C7: when the text starts with '---' and '---' occurs again at or after
\* offset 3, the first such occurrence closes the header: the lines parsed
\* are those between offset 3 and it, the mapping returned is the parse of
\* that text, and the body comes from the text after it.
\* ------------------------------------------------------------------------
C7_FirstClosing ==
  (pc # "start" /\ DelimStart(content) /\ LaterDelims(content) # {}) =>
    LET e == Min(LaterDelims(content))
        header == Slice(content, 3, e)
    IN /\ body = strip(SliceFrom(content, e + 3))
       /\ lines = split_nl(strip(header))
       /\ pc = "done" =>
            LET returned == parse_simple_yaml(header)
            IN returned.pc = "done" /\ frontmatter = returned.result

C7_Witness ==
  /\ pc = "done"
  /\ DelimStart(content)
  /\ Cardinality(LaterDelims(content)) >= 2
  /\ frontmatter # EmptyDict
  /\ body # <<>>

\* ------------------------------------------------------------------------
\* C8: only a delimiter literal standing on a line of its own closes the
\* header; '---' inside a header line (title: a --- b) does not, and the
\* key on that line keeps its full value.
\* ------------------------------------------------------------------------
C8_ClosedOnOwnLine ==
  ( /\ pc # "start"
    /\ DelimStart(content)
    /\ Len(content) >= 4
    /\ content[4] = "\n"
    /\ OwnLineDelims(content) # {} ) =>
    /\ lines = split_nl(strip(Slice(content, 3, Min(OwnLineDelims(content)))))
    /\ (pc = "done" /\ startswith(content, DELIM \o H_embedded \o DELIM)) =>
         frontmatter = (<<"t">> :> Scalar(TEXT_a_delim_b))

\* ------------------------------------------------------------------------
\* C9 (as stated): the body is the text after the closing delimiter with
\* only its leading and trailing blank lines removed.
\* ------------------------------------------------------------------------
C9_BlankLinesOnly ==
  (pc # "start" /\ DelimStart(content) /\ LaterDelims(content) # {}) =>
    body = TrimBlankLines(SliceFrom(content, Min(LaterDelims(content)) + 3))

\* ------------------------------------------------------------------------
\* C9 (amended): the body is the text after the closing delimiter with all
\* leading and trailing whitespace removed: it is a contiguous piece of that
\* text, everything before and after it is whitespace, and it neither
\* starts nor ends with a whitespace character.
\* ------------------------------------------------------------------------
C9_BodyStripped ==
  (pc # "start" /\ DelimStart(content) /\ LaterDelims(content) # {}) =>
    LET after == SliceFrom(content, Min(LaterDelims(content)) + 3)
    IN /\ \E s \in 0..Len(after) : \E e \in s..Len(after) :
            /\ body = SubSeq(after, s + 1, e)
            /\ \A k \in 1..s : after[k] \in Whitespace
            /\ \A k \in (e + 1)..Len(after) : after[k] \in Whitespace
       /\ body # <<>> =>
            body[1] \notin Whitespace /\ body[Len(body)] \notin Whitespace

C9_Witness ==
  /\ pc = "done"
  /\ DelimStart(content)
  /\ LaterDelims(content) # {}
  /\ body # <<>>
  /\ LET t == TrimBlankLines(SliceFrom(content, Min(LaterDelims(content)) + 3))
     IN t # body /\ t[1] \in Whitespace /\ t[Len(t)] \in Whitespace

\* ------------------------------------------------------------------------
\* C10: a line K: qTq with the same quote character q on both sides and T
\* non-empty binds K to exactly T, whatever T holds (a ':' in T adds no key
\* and no structure); when the two quote characters differ the value is
\* kept with its quote characters.  The same holds for an indented child
\* line of a nested key.
\* ------------------------------------------------------------------------
C10_QuotedLiteral ==
  [][\A K \in QuoteKeys, q1 \in Quotes, q2 \in Quotes, text \in QuoteTexts :
       LET expect == IF q1 = q2 THEN text ELSE <<q1>> \o text \o <<q2>> IN
       /\ (pc = "scan" /\ i < Len(lines)
             /\ lines[i + 1] = QuotedLine(K, q1, text, q2))
          => (pc' = "scan" /\ result' = Put(result, K, Scalar(expect)))
       /\ (pc = "nested" /\ i < Len(lines)
             /\ lines[i + 1] = <<" ", " ">> \o QuotedLine(K, q1, text, q2))
          => (pc' = "nested" /\ result' = result
                /\ nested' = Put(nested, K, Scalar(expect)))
    ]_vars

C10_Witness ==
  /\ pc = "done"
  /\ \E k \in 1..Len(lines) : lines[k] = QuotedLine(<<"t">>, "\"", TEXT_a_colon_b, "\"")
  /\ <<"t">> \in DOMAIN frontmatter
  /\ frontmatter[<<"t">>] = Scalar(TEXT_a_colon_b)

\* ------------------------------------------------------------------------
\* Vocabulary of the properties about lines
\* ------------------------------------------------------------------------
\* s has the key form: an identifier, optional whitespace, ':'
IsKeyForm(s) ==
  \E n \in 1..Len(s) : \E c \in (n + 1)..Len(s) :
    /\ s[1] \in Letter
    /\ \A j \in 2..n : s[j] \in IdentChar
    /\ \A j \in (n + 1)..(c - 1) : s[j] \in Whitespace
    /\ s[c] = ":"

IsBlank(line) == NonWs(line) = {}

IsComment(line) == ~IsBlank(line) /\ line[Min(NonWs(line))] = "#"

\* neither blank, nor a comment, nor a key line, nor a '-' item
IsMalformed(line) ==
  /\ ~IsBlank(line)
  /\ ~IsComment(line)
  /\ ~IsKeyForm(strip(line))
  /\ line[Min(NonWs(line))] # "-"

\* the mapping built so far: the entries stored, and the nested mapping
\* under construction for the pending key
BuiltSoFar ==
  IF pc = "nested" THEN Put(result, key, Mapping(nested)) ELSE result

\* ls with the line m inserted after its p-th line
InsertLine(ls, p, m) == SubSeq(ls, 1, p) \o <<m>> \o SubSeq(ls, p + 1, Len(ls))

\* ------------------------------------------------------------------------
\* C11: for every identifier key and every plain value, the document
\* '---\n' + key + ': ' + value + '\n---' parses to a mapping that binds key
\* to exactly value.
\* ------------------------------------------------------------------------
C11_RoundTrip ==
  \A K \in RoundTripKeys, V \in RoundTripValues :
    (pc # "start" /\ content = RoundTripDoc(K, V)) =>
      /\ lines = <<K \o <<":", " ">> \o V>>
      /\ pc = "done" => (K \in DOMAIN frontmatter /\ frontmatter[K] = Scalar(V))

\* ------------------------------------------------------------------------
\* C12: processing a line that has not the key form leaves the mapping
\* built so far unchanged: no key is added, removed or rebound, at top
\* level or inside the nested mapping under construction.
\* ------------------------------------------------------------------------
C12_MalformedKeepsMapping ==
  [][(pc \in {"scan", "nested"} /\ i < Len(lines)
        /\ ~IsKeyForm(strip(lines[i + 1])))
       => /\ BuiltSoFar' = BuiltSoFar
          /\ pc = "scan" => result' = result
          /\ pc = "nested" => nested' = nested]_vars

C12_Witness ==
  /\ pc = "scan"
  /\ i >= 2
  /\ IsMalformed(lines[i])
  /\ result # EmptyDict
  /\ \E k \in DOMAIN result : result[k].tag = "Mapping" /\ result[k].val # EmptyDict

\* ------------------------------------------------------------------------
\* Vocabulary of the properties about inserted lines
\* ------------------------------------------------------------------------
MalformedLines ==
  {<<"x", " ", "y">>,
   <<" ", "x", " ", "y">>,
   <<" ", " ", "x", " ", "y">>,
   <<"\t", "x", " ", "y">>,
   <<"1", ":", " ", "2">>,
   <<" ", " ", " ", " ", "1", ":", " ", "2">>}

\* the line starts with two spaces or a tab
DeepIndented(line) == startswith(line, <<" ", " ">>) \/ startswith(line, <<"\t">>)

\* a key line whose value is empty once its quotes are removed
IsOpener(line) ==
  /\ IsKeyForm(strip(line))
  /\ ValueOf(line) \in {<<>>, <<"\"">>, <<"'">>, <<"\"", "\"">>, <<"'", "'">>}

\* the p-th line of ls is the key line of a nested block or lies inside one
InNestedBlock(ls, p) ==
  \E q \in 1..p :
    /\ IsOpener(ls[q])
    /\ \A j \in (q + 1)..p : IsBlank(ls[j]) \/ DeepIndented(ls[j])

\* parsing ls with m inserted after line p returns the mapping returned for ls
SameWithInserted(p, m) ==
  LET f == parse_simple_yaml(join_nl(InsertLine(lines, p, m)))
  IN f.pc = "done" /\ f.result = frontmatter

\* ------------------------------------------------------------------------
\* C13 (as stated): inserting a malformed line between two header lines, at
\* any position and at any indentation, leaves the returned mapping
\* unchanged.
\* ------------------------------------------------------------------------
C13_SkippedLineInert ==
  pc = "done" =>
    \A p \in 1..(Len(lines) - 1) : \A m \in MalformedLines : SameWithInserted(p, m)

\* ------------------------------------------------------------------------
\* C13, where the code does as stated: inserting a malformed line between two
\* header lines leaves the returned mapping unchanged when the inserted line
\* starts with two spaces or a tab, or when it is inserted outside a nested
\* block.
\* ------------------------------------------------------------------------
C13_IndentedSkippedLineInert ==
  pc = "done" =>
    \A p \in 1..(Len(lines) - 1) : \A m \in MalformedLines :
      (DeepIndented(m) \/ ~InNestedBlock(lines, p)) => SameWithInserted(p, m)

C13_Witness ==
  /\ pc = "done"
  /\ \E p \in 1..(Len(lines) - 1) :
       /\ InNestedBlock(lines, p)
       /\ DeepIndented(lines[p + 1]) /\ IsKeyForm(strip(lines[p + 1]))
       /\ SameWithInserted(p, <<" ", " ", "x", " ", "y">>)
       /\ ~SameWithInserted(p, <<"x", " ", "y">>)
  /\ \E p \in 1..(Len(lines) - 1) :
       ~InNestedBlock(lines, p) /\ SameWithInserted(p, <<"x", " ", "y">>)

\* ------------------------------------------------------------------------
\* C14: a call returns the mapping and the body that its argument alone
\* determines, whatever was parsed before it and whatever other call runs
\* interleaved with it.
\* ------------------------------------------------------------------------
C14_CallsIndependent ==
  /\ pc = "done" =>
       /\ parse_frontmatter(content).done
       /\ frontmatter = parse_frontmatter(content).frontmatter
       /\ body = parse_frontmatter(content).body
  /\ other.pc = "done" =>
       /\ parse_frontmatter(other.content).done
       /\ other.frontmatter = parse_frontmatter(other.content).frontmatter
       /\ other.body = parse_frontmatter(other.content).body

C14_Witness ==
  /\ pc = "done"
  /\ other.pc = "done"
  /\ content # other.content
  /\ frontmatter # EmptyDict
  /\ other.frontmatter # EmptyDict
  /\ frontmatter # other.frontmatter

\* ------------------------------------------------------------------------
\* C15: get_frontmatter_field returns the value that the parse binds to the
\* top-level key field; it returns None, and does not raise, when the key is
\* missing, when the document does not start with the delimiter and when the
\* header is unclosed.
\* ------------------------------------------------------------------------
FieldNames == {<<"a">>, <<"b">>, <<"t">>, <<"z">>}

C15_FieldLookup ==
  pc = "done" =>
    \A field \in FieldNames :
      LET returned == get_frontmatter_field(content, field)
      IN /\ returned # KeyError
         /\ field \in DOMAIN frontmatter => returned = frontmatter[field]
         /\ field \notin DOMAIN frontmatter => returned = NoneValue
         /\ (~DelimStart(content) \/ LaterDelims(content) = {}) => returned = NoneValue

C15_Witness ==
  /\ pc = "done"
  /\ <<"a">> \in DOMAIN frontmatter
  /\ frontmatter[<<"a">>].tag = "Mapping"
  /\ <<"b">> \in DOMAIN frontmatter[<<"a">>].val
  /\ get_frontmatter_field(content, <<"a">>) = frontmatter[<<"a">>]
  /\ get_frontmatter_field(content, <<"b">>) = NoneValue

\* ------------------------------------------------------------------------
\* C16: a document with an opening and a closing delimiter whose header has
\* no key line (blank, comment and malformed lines only, or nothing) yields
\* the empty mapping, and its body is the trimmed text after the closing
\* delimiter, not the whole document.
\* ------------------------------------------------------------------------
\* the lines between the opening delimiter and the first later one
RawHeaderLines(c) == split_nl(Slice(c, 3, Min(LaterDelims(c))))

NoKeyLine(c) ==
  \A k \in 1..Len(RawHeaderLines(c)) : ~IsKeyForm(strip(RawHeaderLines(c)[k]))

C16_EmptyHeader ==
  (pc = "done" /\ DelimStart(content) /\ LaterDelims(content) # {} /\ NoKeyLine(content)) =>
    /\ frontmatter = EmptyDict
    /\ body = strip(SliceFrom(content, Min(LaterDelims(content)) + 3))
    /\ body # content

C16_Witness ==
  /\ pc = "done"
  /\ DelimStart(content)
  /\ LaterDelims(content) # {}
  /\ NoKeyLine(content)
  /\ \E k \in 1..Len(RawHeaderLines(content)) : IsComment(RawHeaderLines(content)[k])
  /\ \E k \in 1..Len(RawHeaderLines(content)) : IsMalformed(RawHeaderLines(content)[k])
  /\ frontmatter = EmptyDict
  /\ body # <<>>

\* ------------------------------------------------------------------------
\* C17: a key with empty value whose next line has more leading whitespace
\* characters than the key's own line is bound to a nested mapping that
\* contains the key of that line, whether the indentation is one space, one
\* tab, two spaces or a mix.
\* ------------------------------------------------------------------------
C17_IndentCounted ==
  ( /\ pc = "done"
    /\ Len(lines) = 2
    /\ IsEmptyKeyLine(lines[1])
    /\ IsPlainLine(lines[2])
    /\ Indent(lines[2]) > Indent(lines[1]) )
  => /\ KeyOf(lines[1]) \in DOMAIN frontmatter
     /\ frontmatter[KeyOf(lines[1])].tag = "Mapping"
     /\ KeyOf(lines[2]) \in DOMAIN frontmatter[KeyOf(lines[1])].val

\* ------------------------------------------------------------------------
\* C18: inserting a blank line or a comment line, at any indentation,
\* between two header lines leaves the returned mapping unchanged.
\* ------------------------------------------------------------------------
InertLines ==
  {<<>>,
   <<" ", " ">>,
   <<"#", " ", "c">>,
   <<" ", " ", "#", " ", "c">>,
   <<"\t", "#", "c">>}

C18_BlankCommentInert ==
  pc = "done" =>
    \A p \in 1..(Len(lines) - 1) : \A m \in InertLines : SameWithInserted(p, m)

\* ------------------------------------------------------------------------
\* C19: a key with empty value followed by a run of N indented '-' lines is
\* bound to a Sequence of the N items in encounter order; the line that ends
\* the run is parsed normally.
\* ------------------------------------------------------------------------
\* the number of '-' lines that follow the first line of ls
DashRun(ls) ==
  Max({n \in 0..(Len(ls) - 1) :
         \A j \in 2..(n + 1) : IsDashLine(ls[j]) /\ Indent(ls[j]) > 0})

\* the item of a '-' line
ItemOf(line) == parse_list_item(lstrip(Tail(strip(line))))

C19_SequenceUnderKey ==
  ( /\ pc = "done"
    /\ Len(lines) >= 2
    /\ IsEmptyKeyLine(lines[1])
    /\ DashRun(lines) >= 1
    /\ Len(lines) > DashRun(lines) + 1 =>
         ( /\ Len(lines) = DashRun(lines) + 2
           /\ IsPlainLine(lines[Len(lines)])
           /\ Indent(lines[Len(lines)]) = 0
           /\ KeyOf(lines[Len(lines)]) # KeyOf(lines[1]) ) )
  => /\ KeyOf(lines[1]) \in DOMAIN frontmatter
     /\ frontmatter[KeyOf(lines[1])].tag = "Sequence"
     /\ Len(frontmatter[KeyOf(lines[1])].val) = DashRun(lines)
     /\ \A j \in 1..DashRun(lines) :
          frontmatter[KeyOf(lines[1])].val[j] = ItemOf(lines[j + 1])
     /\ Len(lines) > DashRun(lines) + 1 =>
          /\ KeyOf(lines[Len(lines)]) \in DOMAIN frontmatter
          /\ frontmatter[KeyOf(lines[Len(lines)])] = Scalar(ValueOf(lines[Len(lines)]))

\* ------------------------------------------------------------------------
\* C20: parse_list_item returns the trimmed text as a scalar when it holds
\* no ':'; otherwise it returns a Record with one entry for every
\* whitespace-separated token that holds ':' (key: the text before the first
\* ':', value: the rest), the later token winning for a repeated key; the
\* item text 'command: "x"' gives the record {command: 'x'}.
\* ------------------------------------------------------------------------
RECURSIVE TokenEntries(_, _)
TokenEntries(parts, acc) ==
  IF parts = <<>> THEN acc
  ELSE LET part == Head(parts)
           c == Min({k \in 1..Len(part) : part[k] = ":"})
       IN IF HasColon(part)
            THEN TokenEntries(Tail(parts),
                              Put(acc, SubSeq(part, 1, c - 1), SubSeq(part, c + 1, Len(part))))
            ELSE TokenEntries(Tail(parts), acc)

C20_ListItem ==
  pc = "itemdone" =>
    /\ ~HasColon(strip(item_text)) => item = Scalar(strip(item_text))
    /\ (HasColon(strip(item_text)) /\ item_text # TEXT_command_x) =>
         item = Record(TokenEntries(split_ws(strip(item_text)), EmptyDict))
    /\ item_text = TEXT_command_x => item = Record(NAME_command :> <<"x">>)

\* ------------------------------------------------------------------------
\* C21: every key of the mapping, at top level and inside nested mappings,
\* is a letter followed by letters, digits, hyphens and underscores only;
\* processing a line whose first non-blank character is not a letter adds
\* no key.
\* ------------------------------------------------------------------------
IsIdentifier(k) ==
  /\ k # <<>>
  /\ k[1] \in Letter
  /\ \A j \in 2..Len(k) : k[j] \in Letter \cup Digit \cup {"-", "_"}

\* the keys of a mapping: those of the top level and, under each key bound
\* to a nested mapping, those of that mapping
NestedKeysOf(m) ==
  UNION {{<<k, c>> : c \in DOMAIN m[k].val} : k \in {x \in DOMAIN m : m[x].tag = "Mapping"}}

AllKeysOf(m) == {<<k>> : k \in DOMAIN m} \cup NestedKeysOf(m)

StartsWithNonLetter(line) == ~IsBlank(line) /\ strip(line)[1] \notin Letter

C21_KeyGrammar ==
  /\ [](\A ks \in AllKeysOf(BuiltSoFar) \cup AllKeysOf(frontmatter) :
          \A j \in 1..Len(ks) : IsIdentifier(ks[j]))
  /\ [][(Parsing /\ i < Len(lines) /\ StartsWithNonLetter(lines[i + 1]))
          => AllKeysOf(BuiltSoFar') = AllKeysOf(BuiltSoFar)]_vars

C21_Witness ==
  /\ pc = "done"
  /\ \E p \in 1..Len(lines) : StartsWithNonLetter(lines[p]) /\ HasColon(lines[p])
  /\ \E ks \in AllKeysOf(frontmatter) :
       Len(ks) = 2 /\ \E j \in 1..Len(ks[2]) : ks[2][j] \in {"-", "_"}

\* ------------------------------------------------------------------------
\* C22: a quoted value yields a Scalar for every inner text, the empty one
\* included, and the line after such a key is parsed as a line of its own,
\* not as a child of the key.
\* ------------------------------------------------------------------------
C22_QuotedScalar ==
  \A K \in QuoteKeys, q \in Quotes, text \in QuoteTexts \cup {<<>>} :
    ( /\ pc = "done"
      /\ Len(lines) \in 1..2
      /\ lines[1] = QuotedLine(K, q, text, q)
      /\ Len(lines) = 2 => (IsPlainLine(lines[2]) /\ KeyOf(lines[2]) # K) )
    => /\ K \in DOMAIN frontmatter
       /\ frontmatter[K] = Scalar(text)
       /\ Len(lines) = 2 =>
            /\ KeyOf(lines[2]) \in DOMAIN frontmatter
            /\ frontmatter[KeyOf(lines[2])] = Scalar(ValueOf(lines[2]))

\* ------------------------------------------------------------------------
\* C23: the line that ends a nested block is not consumed by it.  When the
\* nested-block scan meets a non-blank line that is not indented it stops
\* with the cursor on that line and stores the children collected; the
\* top-level scan parses that line next, and binds it when it is a
\* well-formed unindented 'k: v' line; every well-formed child line before
\* it is bound inside the nested mapping.
\* ------------------------------------------------------------------------
\* line p is the key line of the block being scanned
OpensBlock(p) ==
  /\ IsKeyForm(strip(lines[p]))
  /\ KeyOf(lines[p]) = key
  /\ \A j \in (p + 1)..i : IsBlank(lines[j]) \/ DeepIndented(lines[j])

\* line j is the last child line with its key, among the lines scanned
LastChild(p, j) ==
  \A h \in (j + 1)..i : IsKeyLine(lines[h]) => KeyOf(lines[h]) # KeyOf(lines[j])

C23_EndingLineKept ==
  /\ [][(pc = "nested" /\ i < Len(lines)
           /\ ~IsBlank(lines[i + 1]) /\ ~DeepIndented(lines[i + 1]))
          => (pc' = "scan" /\ i' = i /\ result' = Put(result, key, Mapping(nested)))]_vars
  /\ [][(pc = "scan" /\ i < Len(lines)
           /\ IsPlainLine(lines[i + 1]) /\ Indent(lines[i + 1]) = 0)
          => /\ i' = i + 1
             /\ result' = Put(result, KeyOf(lines[i + 1]), Scalar(ValueOf(lines[i + 1])))]_vars
  /\ []((pc = "nested" /\ i < Len(lines)
           /\ ~IsBlank(lines[i + 1]) /\ ~DeepIndented(lines[i + 1])) =>
          \E p \in 1..i :
            /\ OpensBlock(p)
            /\ \A j \in (p + 1)..i :
                 (IsPlainLine(lines[j]) /\ LastChild(p, j)) =>
                   /\ KeyOf(lines[j]) \in DOMAIN nested
                   /\ nested[KeyOf(lines[j])] = Scalar(ValueOf(lines[j])))

C23_Witness ==
  /\ pc = "scan"
  /\ i >= 3
  /\ IsPlainLine(lines[i]) /\ Indent(lines[i]) = 0
  /\ IsPlainLine(lines[i - 1]) /\ DeepIndented(lines[i - 1])
  /\ KeyOf(lines[i]) \in DOMAIN result
  /\ result[KeyOf(lines[i])] = Scalar(ValueOf(lines[i]))
  /\ \E k \in DOMAIN result :
       /\ result[k].tag = "Mapping"
       /\ KeyOf(lines[i - 1]) \in DOMAIN result[k].val

\* ------------------------------------------------------------------------
\* C24: after a key K with value '|' or '>', a following line indented by at
\* least K's indentation + 2 adds or changes no key other than K, even when
\* its text has the form 'ident: value'.
\* ------------------------------------------------------------------------
C24_BlockLinesNoKeys ==
  ( /\ pc = "done"
    /\ Len(lines) >= 2
    /\ IsBlockKeyLine(lines[1])
    /\ \A j \in 2..Len(lines) : Indent(lines[j]) >= Indent(lines[1]) + 2 )
  => DOMAIN frontmatter \subseteq {KeyOf(lines[1])}

\* ------------------------------------------------------------------------
\* C25 (as stated): a top-level key with empty value and no indented
\* follower is present in the returned mapping and bound to an empty
\* mapping.
\* ------------------------------------------------------------------------
\* the first non-blank line after line p, if any, is unindented
NoIndentedFollower(p) ==
  \A j \in (p + 1)..Len(lines) :
    (~IsBlank(lines[j]) /\ \A h \in (p + 1)..(j - 1) : IsBlank(lines[h]))
      => Indent(lines[j]) = 0

IsBareKey(p) ==
  /\ Indent(lines[p]) = 0
  /\ IsEmptyKeyLine(lines[p])
  /\ NoIndentedFollower(p)

LinesOf(K) == {p \in 1..Len(lines) : IsKeyLine(lines[p]) /\ KeyOf(lines[p]) = K}

\* lines p + 1 .. h are lines of the nested block opened at line p
InBlock(p, h) == \A g \in (p + 1)..h : IsBlank(lines[g]) \/ DeepIndented(lines[g])

C26_LastWriterWins ==
  pc = "done" =>
    /\ \A q \in 1..Len(lines) :
         ( /\ IsKeyLine(lines[q])
           /\ Cardinality(LinesOf(KeyOf(lines[q]))) >= 2
           /\ q = Max(LinesOf(KeyOf(lines[q])))
           /\ \A p \in LinesOf(KeyOf(lines[q])) : Indent(lines[p]) = 0 )
         => /\ KeyOf(lines[q]) \in DOMAIN frontmatter
            /\ IsPlainLine(lines[q]) =>
                 frontmatter[KeyOf(lines[q])] = Scalar(ValueOf(lines[q]))
            /\ IsBlockKeyLine(lines[q]) =>
                 frontmatter[KeyOf(lines[q])] = Scalar(BlockText(lines, q))
            /\ IsEmptyKeyLine(lines[q]) =>
                 frontmatter[KeyOf(lines[q])].tag \in {"Mapping", "Sequence"}
    /\ \A p \in 1..Len(lines) : \A j \in 1..Len(lines) : \A q \in 1..Len(lines) :
         ( /\ p < j /\ j < q
           /\ Indent(lines[p]) = 0 /\ IsEmptyKeyLine(lines[p])
           /\ LinesOf(KeyOf(lines[p])) = {p}
           /\ InBlock(p, q)
           /\ IsPlainLine(lines[j]) /\ IsPlainLine(lines[q])
           /\ KeyOf(lines[j]) = KeyOf(lines[q])
           /\ \A h \in (q + 1)..Len(lines) :
                (InBlock(p, h) /\ IsKeyLine(lines[h])) => KeyOf(lines[h]) # KeyOf(lines[q]) )
         => /\ KeyOf(lines[p]) \in DOMAIN frontmatter
            /\ frontmatter[KeyOf(lines[p])].tag = "Mapping"
            /\ KeyOf(lines[q]) \in DOMAIN frontmatter[KeyOf(lines[p])].val
            /\ frontmatter[KeyOf(lines[p])].val[KeyOf(lines[q])] = Scalar(ValueOf(lines[q]))

\* ------------------------------------------------------------------------
\* C27: parse_frontmatter of analyze-tokens.py returns the same mapping and
\* body as parse_frontmatter of frontmatter.py, for every text, with a
\* header, without one and with an unclosed one; it returns exactly when
\* the other does.
\* ------------------------------------------------------------------------
C27_SplittersAgree ==
  /\ pc = "done" =>
       LET returned == analyze_tokens_parse_frontmatter(content)
       IN returned.done /\ returned.frontmatter = frontmatter /\ returned.body = body
  /\ (pc = "nested" /\ step(Frame) = Frame) =>
       ~analyze_tokens_parse_frontmatter(content).done

C27_Witness ==
  /\ pc = "done"
  /\ DelimStart(content)
  /\ LaterDelims(content) # {}
  /\ frontmatter # EmptyDict
  /\ body # <<>>
  /\ body # SliceFrom(content, Min(LaterDelims(content)) + 3)
  /\ analyze_tokens_parse_frontmatter(content).frontmatter = frontmatter
  /\ analyze_tokens_parse_frontmatter(content).body = body

====
